---- MODULE Spec2Model ----
(***************************************************************************)
(* Model of fastqc_pipe.py: locate the lane files of every sample of a     *)
(* run list, concatenate them per read direction, run fastqc on the merged *)
(* files and optionally remove them.                                       *)
(*                                                                         *)
(* Paths, file names and command arguments are TLA+ strings; the string    *)
(* functions of the script (find, replace, strip, startswith, join, sort,  *)
(* glob matching, str) are operators that compute what Python computes.    *)
(* The file system is a function from absolute path to the file's bytes    *)
(* and its read permission.                                                *)
(***************************************************************************)
EXTENDS Integers, Sequences, FiniteSets, TLC

VARIABLES
    args,         \* the parsed command line: dir, file, threads, merge, clean, reads
    runlist,      \* the lines parse_input_file has read from args.file
    cores,        \* len(os.sched_getaffinity(0))
    app,          \* TRUE iff shutil.which("fastqc") finds the executable
    disk,         \* absolute path -> [bytes, readable]
    pc,           \* position of the script
    merge_jobs,   \* parse_input_file's list of [read, files, sample]
    jobNo,        \* jobs merge_fastq has completed
    merge_names,  \* merge_fastq's list of target names
    qc_jobs,      \* main's list of merged files (merge_fastq's return value)
    fqcRuns,      \* the subprocess.run calls made: [argv, status]
    cleanNo,      \* files the clean loop has unlinked
    err,          \* the exception that ended the run, or "none"
    log           \* warnings logged

vars == <<args, runlist, cores, app, disk, pc, merge_jobs, jobNo,
          merge_names, qc_jobs, fqcRuns, cleanNo, err, log>>

---------------------------------------------------------------------------
(* Bounds of the model *)

\* lines of the run list
MaxLines == 3
\* files under the root directory
MaxFiles == 2

---------------------------------------------------------------------------
(* Python strings *)

Char(s, i) == SubSeq(s, i, i)

\* the characters of the model in code-point order
Alphabet == "\t\n ./0123456789ABLRS\\_abdfghmqstwxyz"

\* ord(c), up to an order-preserving renumbering
Ord(c) == CHOOSE i \in 1..Len(Alphabet) : Char(Alphabet, i) = c

\* a < b for str
RECURSIVE StrLess(_, _)
StrLess(a, b) ==
    IF b = "" THEN FALSE
    ELSE IF a = "" THEN TRUE
    ELSE IF Head(a) = Head(b) THEN StrLess(Tail(a), Tail(b))
    ELSE Ord(Head(a)) < Ord(Head(b))

\* s.startswith(prefix)
Startswith(s, prefix) ==
    /\ Len(prefix) <= Len(s)
    /\ SubSeq(s, 1, Len(prefix)) = prefix

\* s.find(sub): lowest 0-based index of sub in s, -1 when absent
RECURSIVE FindFrom(_, _, _)
FindFrom(s, sub, i) ==
    IF i + Len(sub) > Len(s) THEN -1
    ELSE IF SubSeq(s, i + 1, i + Len(sub)) = sub THEN i
    ELSE FindFrom(s, sub, i + 1)

Find(s, sub) == FindFrom(s, sub, 0)

\* bool(n) for an int
Truthy(n) == n # 0

\* s.replace(old, new) for a one-character old
RECURSIVE Replace(_, _, _)
Replace(s, old, new) ==
    IF s = "" THEN ""
    ELSE (IF Head(s) = old THEN new ELSE Head(s)) \o Replace(Tail(s), old, new)

Whitespace == {" ", "\t", "\n"}

RECURSIVE LStrip(_)
LStrip(s) == IF s # "" /\ Head(s) \in Whitespace THEN LStrip(Tail(s)) ELSE s

RECURSIVE RStrip(_)
RStrip(s) ==
    IF s # "" /\ Char(s, Len(s)) \in Whitespace
    THEN RStrip(SubSeq(s, 1, Len(s) - 1)) ELSE s

\* s.strip()
Strip(s) == RStrip(LStrip(s))

\* sep.join(items)
RECURSIVE Join(_, _)
Join(sep, items) ==
    IF items = <<>> THEN ""
    ELSE IF Len(items) = 1 THEN items[1]
    ELSE items[1] \o sep \o Join(sep, Tail(items))

Digits == "0123456789"

\* str(n) for n >= 0
RECURSIVE Str(_)
Str(n) ==
    IF n < 10 THEN Char(Digits, n + 1)
    ELSE Str(n \div 10) \o Char(Digits, (n % 10) + 1)

\* fnmatch of a file name against a pattern of literals, * and [lo-hi]
RECURSIVE GlobMatch(_, _)
GlobMatch(pat, name) ==
    IF pat = "" THEN name = ""
    ELSE IF Head(pat) = "*"
         THEN \/ GlobMatch(Tail(pat), name)
              \/ name # "" /\ GlobMatch(pat, Tail(name))
    ELSE IF Head(pat) = "[" /\ Len(pat) >= 5 /\ Char(pat, 3) = "-" /\ Char(pat, 5) = "]"
         THEN /\ name # ""
              /\ Ord(Char(pat, 2)) <= Ord(Head(name))
              /\ Ord(Head(name)) <= Ord(Char(pat, 4))
              /\ GlobMatch(SubSeq(pat, 6, Len(pat)), Tail(name))
    ELSE /\ name # ""
         /\ Head(name) = Head(pat)
         /\ GlobMatch(Tail(pat), Tail(name))

\* list.sort() of a list of str, by insertion
RECURSIVE Insert(_, _)
Insert(sorted, s) ==
    IF sorted = <<>> THEN <<s>>
    ELSE IF StrLess(s, Head(sorted)) THEN <<s>> \o sorted
    ELSE <<Head(sorted)>> \o Insert(Tail(sorted), s)

RECURSIVE SortPaths(_)
SortPaths(list) ==
    IF list = <<>> THEN <<>>
    ELSE Insert(SortPaths(SubSeq(list, 1, Len(list) - 1)), list[Len(list)])

---------------------------------------------------------------------------
(* The file system *)

Cwd == "/w"

\* Path.resolve() and the kernel's lookup of a relative path
Resolve(p) == IF Startswith(p, "/") THEN p ELSE Cwd \o "/" \o p

\* the last component of a path
RECURSIVE NameFrom(_, _)
NameFrom(p, i) ==
    IF i = 0 \/ Char(p, i) = "/" THEN SubSeq(p, i + 1, Len(p))
    ELSE NameFrom(p, i - 1)

Basename(p) == NameFrom(p, Len(p))

Exists(d, p) == Resolve(p) \in DOMAIN d

\* open(p, "rb") succeeds
Openable(d, p) == Exists(d, p) /\ d[Resolve(p)].readable

\* the file system after p holds bytes b
WriteFile(d, p, b) ==
    [q \in DOMAIN d \cup {Resolve(p)} |->
        IF q = Resolve(p) THEN [bytes |-> b, readable |-> TRUE] ELSE d[q]]

\* the file system after os.unlink(p)
Unlink(d, p) == [q \in DOMAIN d \ {Resolve(p)} |-> d[q]]

\* the files a run may find under the directory d of the working directory
Catalogue ==
    [p \in {"/w/d/a/A_L002_R1.fastq", "/w/d/b/A_L001_R1.fastq.gz",
            "/w/d/A_L001_R2.fastq", "/w/d/x y/B_L001_R1.fastq",
            "/w/d/B_L002_R1.fastq", "/w/d/B_L003_R2.fastq"} |->
        CASE p = "/w/d/a/A_L002_R1.fastq"    -> [bytes |-> <<2>>,    readable |-> TRUE]
          [] p = "/w/d/b/A_L001_R1.fastq.gz" -> [bytes |-> <<1, 1>>, readable |-> TRUE]
          [] p = "/w/d/A_L001_R2.fastq"      -> [bytes |-> <<3>>,    readable |-> TRUE]
          [] p = "/w/d/x y/B_L001_R1.fastq"  -> [bytes |-> <<4>>,    readable |-> TRUE]
          [] p = "/w/d/B_L002_R1.fastq"      -> [bytes |-> <<5>>,    readable |-> TRUE]
          [] OTHER                           -> [bytes |-> <<6>>,    readable |-> FALSE]]

Disks ==
    {[p \in S |-> Catalogue[p]] :
        S \in {T \in SUBSET DOMAIN Catalogue : Cardinality(T) <= MaxFiles}}

---------------------------------------------------------------------------
(* Inputs *)

\* the run list file of the working directory; no other name is a file
RunListFile == "runs.txt"

\* Path.is_file(name), where it returns
IsFile(name) == name = RunListFile

\* the lines a run list is made of; each is read when the loop reaches it
Lines == {"#h\n", "A\n", "B\n"}

\* -t: auto-detect, a count the host has, a count it has not
ThreadCounts == {0, 1, 3}

CoreCounts == {2}

Args ==
    [dir : {"d"}, file : {RunListFile, "none.txt"}, threads : ThreadCounts, merge : {"", "m"},
     clean : BOOLEAN, reads : {3}]

---------------------------------------------------------------------------
(* collect_reads *)

\* the f-string read_match
ReadMatch(readset, read_number) ==
    readset \o "_L00[1-4]_R" \o read_number \o "*.fastq*"

\* the paths Path(rootpath).rglob(pattern) yields, as a set: the order in
\* which the directory tree is walked is the file system's
RGlob(d, rootpath, pattern) ==
    {rootpath \o SubSeq(q, Len(Resolve(rootpath)) + 1, Len(q)) :
        q \in {r \in DOMAIN d : /\ Startswith(r, Resolve(rootpath) \o "/")
                                /\ GlobMatch(pattern, Basename(r))}}

\* the orders in which the members of S can be enumerated
Enumerations(S) ==
    {e \in [1..Cardinality(S) -> S] : \A i, j \in DOMAIN e : e[i] = e[j] => i = j}

\* str(path.resolve()).replace(" ", "\\ ")
Escaped(path) == Replace(Resolve(path), " ", "\\ ")

\* collect_reads, for the order enum in which rglob yields the matches
collect_reads(enum) == SortPaths([i \in DOMAIN enum |-> Escaped(enum[i])])

---------------------------------------------------------------------------
(* parse_input_file *)

\* reads: argparse compares the command-line string with the int choices
\* 1 and 2, so that the only value args.reads takes is the default 3
Reads(a) == IF a.reads = 3 THEN <<"1", "2">> ELSE <<>>

\* NewJobs without the test for an empty list
NewJobsUnfiltered(sample_id, reads, lists) ==
    [i \in DOMAIN reads |->
        [read |-> reads[i], files |-> lists[i], sample |-> sample_id]]

\* the jobs one sample line appends: lists[i] is collect_reads' result for
\* reads[i]
NewJobs(sample_id, reads, lists) ==
    SelectSeq([i \in DOMAIN reads |->
                  [read |-> reads[i], files |-> lists[i], sample |-> sample_id]],
              LAMBDA job : job.files # <<>>)

\* the next line of the run list is a header line; the run lists of the
\* model have their header, if any, as the first line
ParseHeader ==
    /\ pc = "parse"
    /\ runlist = <<>>
    /\ \E line \in Lines :
          /\ Startswith(line, "#")
          /\ runlist' = Append(runlist, line)
    /\ UNCHANGED <<args, cores, app, disk, pc, merge_jobs, jobNo, merge_names,
                   qc_jobs, fqcRuns, cleanNo, err, log>>

\* the next line of the run list names a sample
ParseSample ==
    /\ pc = "parse"
    /\ Len(runlist) < MaxLines
    /\ \E line \in Lines :
          /\ ~Startswith(line, "#")
          /\ runlist' = Append(runlist, line)
          /\ LET sample_id == Strip(line)
                 reads == Reads(args)
             IN  \E e1 \in Enumerations(RGlob(disk, args.dir, ReadMatch(sample_id, reads[1]))),
                    e2 \in Enumerations(RGlob(disk, args.dir, ReadMatch(sample_id, reads[2]))) :
                    LET lists == <<collect_reads(e1), collect_reads(e2)>>
                    IN  /\ merge_jobs' = merge_jobs \o NewJobs(sample_id, reads, lists)
                        /\ log' = IF \E i \in DOMAIN lists : lists[i] = <<>>
                                  THEN log \cup {<<"No files were found", sample_id>>}
                                  ELSE log
    /\ UNCHANGED <<args, cores, app, disk, pc, jobNo, merge_names, qc_jobs,
                   fqcRuns, cleanNo, err>>

\* the run list is exhausted: parse_input_file returns and main calls
\* merge_fastq, which returns at once when there is no job
ParseEnd ==
    /\ pc = "parse"
    /\ pc' = IF merge_jobs = <<>> THEN "qc" ELSE "merge"
    /\ UNCHANGED <<args, runlist, cores, app, disk, merge_jobs, jobNo,
                   merge_names, qc_jobs, fqcRuns, cleanNo, err, log>>

---------------------------------------------------------------------------
(* merge_fastq *)

\* the target name of a job
MergeName(job, merge_dir) ==
    LET r_string == Join(" ", job.files)
        base == job.sample \o "_R" \o job.read \o ".fastq"
        named == IF merge_dir # "" THEN merge_dir \o "/" \o base ELSE base
    IN  IF Truthy(Find(r_string, "gz")) THEN named \o ".gz" ELSE named

\* CopyFiles writing each source in front of what the target holds
RECURSIVE CopyFilesPrepending(_, _, _)
CopyFilesPrepending(d, target, files) ==
    IF files = <<>> THEN [disk |-> d, ok |-> TRUE]
    ELSE IF ~Openable(d, Head(files)) THEN [disk |-> d, ok |-> FALSE]
    ELSE CopyFilesPrepending(WriteFile(d, target,
                                       d[Resolve(Head(files))].bytes \o d[Resolve(target)].bytes),
                             target, Tail(files))

\* the copy loop: each source is opened and its bytes are appended to the
\* open target; ok is FALSE when a source cannot be opened
RECURSIVE CopyFiles(_, _, _)
CopyFiles(d, target, files) ==
    IF files = <<>> THEN [disk |-> d, ok |-> TRUE]
    ELSE IF ~Openable(d, Head(files)) THEN [disk |-> d, ok |-> FALSE]
    ELSE CopyFiles(WriteFile(d, target,
                             d[Resolve(target)].bytes \o d[Resolve(Head(files))].bytes),
                   target, Tail(files))

\* one iteration of the loop over jobs: the target is named, created empty
\* and filled
MergedJob(d, job, merge_dir) ==
    LET name == MergeName(job, merge_dir)
    IN  CopyFiles(WriteFile(d, name, <<>>), name, job.files)

\* one iteration of merge_fastq's loop; an open() that fails raises out of
\* merge_fastq and main, leaving the target as it is
MergeJob ==
    /\ pc = "merge"
    /\ LET job == merge_jobs[jobNo + 1]
           r == MergedJob(disk, job, args.merge)
           last == jobNo + 1 = Len(merge_jobs)
       IN  /\ disk' = r.disk
           /\ merge_names' = Append(merge_names, MergeName(job, args.merge))
           /\ IF r.ok
              THEN /\ jobNo' = jobNo + 1
                   /\ pc' = IF last THEN "qc" ELSE "merge"
                   /\ qc_jobs' = IF last THEN merge_names' ELSE qc_jobs
                   /\ err' = err
              ELSE /\ pc' = "aborted"
                   /\ err' = IF \A i \in DOMAIN job.files : Exists(disk, job.files[i])
                             THEN "PermissionError" ELSE "FileNotFoundError"
                   /\ UNCHANGED <<jobNo, qc_jobs>>
    /\ UNCHANGED <<args, runlist, cores, app, merge_jobs, fqcRuns, cleanNo, log>>

---------------------------------------------------------------------------
(* main *)

\* the thread count main passes on
ResolveThreads(threads, njobs, ncores) ==
    IF threads = 0
    THEN (IF njobs <= ncores THEN njobs ELSE ncores)
    ELSE threads

\* FqcCommand leaving out the last merged file
FqcCommandShort(threads, jobs) ==
    <<"fastqc", "-t", Str(threads)>> \o SubSeq(jobs, 1, Len(jobs) - 1)

\* the command line of the QC tool
FqcCommand(threads, jobs) == <<"fastqc", "-t", Str(threads)>> \o jobs

RunFastQC ==
    /\ pc = "qc"
    /\ app
    /\ \E status \in {0, 1} :
          fqcRuns' = Append(fqcRuns,
              [argv |-> FqcCommand(ResolveThreads(args.threads, Len(qc_jobs), cores), qc_jobs),
               status |-> status])
    /\ pc' = IF args.clean /\ qc_jobs # <<>> THEN "clean" ELSE "done"
    /\ UNCHANGED <<args, runlist, cores, app, disk, merge_jobs, jobNo,
                   merge_names, qc_jobs, cleanNo, err, log>>

\* subprocess.run cannot start an executable that is not on the path
RunFastQCMissing ==
    /\ pc = "qc"
    /\ ~app
    /\ err' = "FileNotFoundError"
    /\ pc' = "aborted"
    /\ UNCHANGED <<args, runlist, cores, app, disk, merge_jobs, jobNo,
                   merge_names, qc_jobs, fqcRuns, cleanNo, log>>

CleanFile ==
    /\ pc = "clean"
    /\ Exists(disk, qc_jobs[cleanNo + 1])
    /\ disk' = Unlink(disk, qc_jobs[cleanNo + 1])
    /\ cleanNo' = cleanNo + 1
    /\ pc' = IF cleanNo' = Len(qc_jobs) THEN "done" ELSE "clean"
    /\ UNCHANGED <<args, runlist, cores, app, merge_jobs, jobNo,
                   merge_names, qc_jobs, fqcRuns, err, log>>

CleanFail ==
    /\ pc = "clean"
    /\ ~Exists(disk, qc_jobs[cleanNo + 1])
    /\ err' = "FileNotFoundError"
    /\ pc' = "aborted"
    /\ UNCHANGED <<args, runlist, cores, app, disk, merge_jobs, jobNo,
                   merge_names, qc_jobs, fqcRuns, cleanNo, log>>

---------------------------------------------------------------------------
(* the script body *)

\* the exceptions that can end the script before main: Path.is_file called
\* on a str raises AttributeError on interpreters whose is_file goes through
\* self.stat(); the assertion fails when the run list is not a file; the
\* probe "fastqc -h" can exit non-zero
StartErrors ==
    {"AttributeError"}
        \cup (IF ~IsFile(args.file) THEN {"AssertionError"} ELSE {})
        \cup (IF IsFile(args.file) /\ app THEN {"CalledProcessError"} ELSE {})

ThreadWarning == IF args.threads > cores THEN {<<"Too many threads requested", cores>>} ELSE {}

Startup ==
    /\ pc = "start"
    /\ IsFile(args.file)
    /\ log' = log \cup ThreadWarning
    /\ pc' = "parse"
    /\ UNCHANGED <<args, runlist, cores, app, disk, merge_jobs, jobNo,
                   merge_names, qc_jobs, fqcRuns, cleanNo, err>>

StartupAbort ==
    /\ pc = "start"
    /\ \E e \in StartErrors :
          /\ err' = e
          /\ log' = IF e = "CalledProcessError" THEN log \cup ThreadWarning ELSE log
    /\ pc' = "aborted"
    /\ UNCHANGED <<args, runlist, cores, app, disk, merge_jobs, jobNo,
                   merge_names, qc_jobs, fqcRuns, cleanNo>>

---------------------------------------------------------------------------

Init ==
    /\ args \in Args
    /\ runlist = <<>>
    /\ cores \in CoreCounts
    /\ app \in BOOLEAN
    /\ disk \in Disks
    /\ pc = "start"
    /\ merge_jobs = <<>>
    /\ jobNo = 0
    /\ merge_names = <<>>
    /\ qc_jobs = <<>>
    /\ fqcRuns = <<>>
    /\ cleanNo = 0
    /\ err = "none"
    /\ log = {}

Next ==
    \/ Startup
    \/ StartupAbort
    \/ ParseHeader
    \/ ParseSample
    \/ ParseEnd
    \/ MergeJob
    \/ RunFastQC
    \/ RunFastQCMissing
    \/ CleanFile
    \/ CleanFail

Spec == Init /\ [][Next]_vars

---------------------------------------------------------------------------
(* Properties *)

\* the lane number in a lane file's path
LaneOf(path) == Find(Digits, Char(path, Find(path, "_L00") + 5))

\* the run has ended
Ended == pc \in {"done", "aborted"}

\* the sample lines read so far
SamplesRead == SelectSeq(runlist, LAMBDA line : ~Startswith(line, "#"))

\* the bytes of the first n sources of job k, one after the other
RECURSIVE SourceBytes(_, _)
SourceBytes(k, n) ==
    IF n = 0 THEN <<>>
    ELSE SourceBytes(k, n - 1) \o disk[Resolve(merge_jobs[k].files[n])].bytes

\* the target name the naming rule gives job k
NamedByRule(k) ==
    LET job == merge_jobs[k]
    IN  (IF args.merge # "" THEN args.merge \o "/" ELSE "")
            \o job.sample \o "_R" \o job.read \o ".fastq"
            \o (IF \E i \in DOMAIN job.files : Find(job.files[i], "gz") # -1
                THEN ".gz" ELSE "")

\* C1: the lane files of every job are in strictly ascending lane order,
\* whatever subdirectories they sit in
C1_LaneOrder ==
    \A k \in DOMAIN merge_jobs :
        \A i, j \in DOMAIN merge_jobs[k].files :
            i < j => LaneOf(merge_jobs[k].files[i]) < LaneOf(merge_jobs[k].files[j])

\* C2: a target is named <dir/><sample>_R<direction>.fastq, with .gz added
\* if and only if some input path contains the marker gz
C2_MergeName ==
    \A k \in DOMAIN merge_names : merge_names[k] = NamedByRule(k)

\* C3: while nothing has been cleaned, the target of every completed merge
\* job holds the bytes of the job's sources, in the order of the job's list
C3_MergedBytes ==
    cleanNo = 0 =>
        \A k \in 1..jobNo :
            /\ Exists(disk, merge_names[k])
            /\ disk[Resolve(merge_names[k])].bytes = SourceBytes(k, Len(merge_jobs[k].files))

\* C3 witness: merge_fastq has returned after merging a job of two sources
C3_Witness ==
    /\ pc = "qc"
    /\ \E k \in DOMAIN merge_jobs : Len(merge_jobs[k].files) >= 2

\* C4: when fastqc is not on the path the run ends before main: no line of
\* the run list is read and nothing is merged
C4_AbortBeforeMerge ==
    ~app => /\ pc \in {"start", "aborted"}
            /\ runlist = <<>>
            /\ merge_names = <<>>

\* C5: a merge that cannot open a source ends the run before the QC tool,
\* and a target on disk holds the bytes of all of its job's sources
C5_NoTruncatedTarget ==
    /\ Len(merge_names) > jobNo => pc = "aborted" /\ fqcRuns = <<>>
    /\ cleanNo = 0 =>
          \A k \in DOMAIN merge_names :
              Exists(disk, merge_names[k]) =>
                  /\ \A i \in DOMAIN merge_jobs[k].files :
                        Openable(disk, merge_jobs[k].files[i])
                  /\ disk[Resolve(merge_names[k])].bytes
                        = SourceBytes(k, Len(merge_jobs[k].files))

\* C6: nothing is removed before the QC tool has exited; once it has, a run
\* with the clean flag ends with no merged file on disk, and a run without
\* it ends with all of them
C6_Clean ==
    /\ cleanNo > 0 => fqcRuns # <<>>
    /\ Ended /\ fqcRuns # <<>> /\ args.clean =>
          \A k \in DOMAIN qc_jobs : ~Exists(disk, qc_jobs[k])
    /\ Ended /\ fqcRuns # <<>> /\ ~args.clean =>
          \A k \in DOMAIN qc_jobs : Exists(disk, qc_jobs[k])

\* C7 as stated: every sample line read has given exactly two jobs, of
\* direction 1 and then of direction 2
C7_TwoJobsPerSample ==
    /\ Len(merge_jobs) = 2 * Len(SamplesRead)
    /\ \A n \in DOMAIN SamplesRead :
          /\ merge_jobs[2 * n - 1].sample = Strip(SamplesRead[n])
          /\ merge_jobs[2 * n - 1].read = "1"
          /\ merge_jobs[2 * n].sample = Strip(SamplesRead[n])
          /\ merge_jobs[2 * n].read = "2"

\* C7 amended: reading a sample line appends one job for each of the
\* directions 1, 2, in that order, that has a lane file under the root
\* directory, and none for a direction that has no lane file
C7_JobsPerSample ==
    [][runlist' # runlist /\ ~Startswith(runlist'[Len(runlist')], "#") =>
        LET sample == Strip(runlist'[Len(runlist')])
            found == SelectSeq(<<"1", "2">>,
                        LAMBDA r : RGlob(disk, args.dir, ReadMatch(sample, r)) # {})
            new == SubSeq(merge_jobs', Len(merge_jobs) + 1, Len(merge_jobs'))
        IN  /\ SubSeq(merge_jobs', 1, Len(merge_jobs)) = merge_jobs
            /\ Len(new) = Len(found)
            /\ \A n \in DOMAIN new :
                  /\ new[n].sample = sample
                  /\ new[n].read = found[n]
                  /\ new[n].files # <<>>]_vars

\* C7 witness: a sample line has been read that has lane files of one
\* direction only
C7_Witness ==
    /\ Len(SamplesRead) = 1
    /\ Len(merge_jobs) = 1

\* C8: the QC tool is run at most once, and once in a run that completes;
\* when it runs every merge job has finished and none runs later, and its
\* arguments are the resolved thread count and the merged files of all jobs
\* in job order
C8_OneRunAfterMerges ==
    /\ Len(fqcRuns) <= 1
    /\ pc = "done" => Len(fqcRuns) = 1
    /\ fqcRuns # <<>> =>
          /\ jobNo = Len(merge_jobs)
          /\ Len(merge_names) = Len(merge_jobs)
          /\ \A k \in DOMAIN merge_names : pc \notin {"clean", "done", "aborted"} =>
                Exists(disk, merge_names[k])
          /\ fqcRuns[1].argv =
                <<"fastqc", "-t",
                  Str(IF args.threads # 0 THEN args.threads
                      ELSE IF Len(merge_jobs) < cores THEN Len(merge_jobs) ELSE cores)>>
                \o merge_names

\* C8 witness: a run has completed with two merged files handed to the tool
C8_Witness ==
    /\ pc = "done"
    /\ Len(qc_jobs) >= 2
    /\ Len(fqcRuns[1].argv) = 3 + Len(qc_jobs)

\* C9: the thread count passed to the QC tool is at most the number of
\* cores: the lesser of jobs and cores when none is set, the number of cores
\* (with a warning) when the count set exceeds it
C9_ThreadsClamped ==
    /\ args.threads > cores /\ pc \notin {"start", "aborted"} =>
          <<"Too many threads requested", cores>> \in log
    /\ \A n \in DOMAIN fqcRuns :
          /\ \E t \in 0..cores : fqcRuns[n].argv[3] = Str(t)
          /\ args.threads > cores => fqcRuns[n].argv[3] = Str(cores)

\* C10: every path in a job's list names a file on disk
C10_FoundFilesExist ==
    \A k \in DOMAIN merge_jobs :
        \A i \in DOMAIN merge_jobs[k].files : Exists(disk, merge_jobs[k].files[i])

====
